---- MODULE Spec2Model ----
(***************************************************************************)
(* The StreetSmart streetlamp-density scripts as state machines:           *)
(*   calculate-segment-lengths.py     the Length Calculator                *)
(*   calculate-streetlamp-density.py  the Lamp Aggregator + Density Joiner *)
(*   analyze_zero_lamp_segments.py    the Segment Analyzer                 *)
(*                                                                         *)
(* Values.  A JSON number is a point of the integer grid; the numbers a    *)
(* binary double holds exactly are the even ones, so reading a literal     *)
(* into a float (json.load, float(Decimal)) rounds it to an even number.   *)
(* A properties mapping is a function from the keys present to values; a   *)
(* key that is absent is not in its DOMAIN.  An identifier value is a      *)
(* record [t, n, s]: t = "int" with the integer n, or t = "str" with the   *)
(* string s.  A geometry is [type, line, parts]: the coordinates of a      *)
(* LineString are its line, those of a MultiLineString or Polygon its      *)
(* parts.  A vertex is a sequence of numbers, <<lon, lat>> when well       *)
(* formed.  A score is a fraction <<numerator, denominator>>.              *)
(***************************************************************************)
EXTENDS Integers, Sequences, FiniteSets, TLC

VARIABLES
    rawfile,      \* data/streets/Street_Centerlines.geojson: its features
    streets,      \* Length Calculator: the loaded collection's features
    lc_i,         \* Length Calculator: index of the feature the loop is at
    lc_pc,        \* Length Calculator: "off", "load", "loop", "done", "aborted"
    enriched,     \* ..._with_length.geojson: [exists, features]
    rows,         \* data/streetlights/Street_Lights.csv: its rows
    csv_i,        \* Density Joiner: index of the next row of the reader
    lamp_counts,  \* Density Joiner: dict, segment identifier -> count
    feature_count,\* Density Joiner: the pre-scan's count
    in_i,         \* Density Joiner: index of the next feature of the open pass
    held,         \* Density Joiner: features parsed, not yet written or dropped
    first,        \* Density Joiner: the loop's flag
    outfile,      \* ..._with_lamp_score.geojson: the writes so far
    j_pc,         \* Density Joiner: "off", "count", "prescan", "pull",
                  \*   "emit", "done", "aborted"
    a_counts,     \* Segment Analyzer: lamp_counts, a Counter
    lamp_segments,      \* Segment Analyzer: set of identifiers with a lamp
    street_segments,    \* Segment Analyzer: set of identifiers of segments
    zero_lamp_segments, \* Segment Analyzer: list of (segid, street_name, length)
    a_seen,       \* Segment Analyzer: features read so far
    summary,      \* Segment Analyzer: the figures of section 3, once printed
    sample_lines, \* Segment Analyzer: the lines of section 4, once printed
    hist_lines,   \* Segment Analyzer: the lines of section 5, once printed
    a_pc          \* Segment Analyzer: "off", "lamps", "segments", "sample",
                  \*   "distribution", "done"

lc_vars == <<rawfile, streets, lc_i, lc_pc>>

j_vars == <<rows, csv_i, lamp_counts, feature_count, in_i, held, first, outfile, j_pc>>

a_vars == <<a_counts, lamp_segments, street_segments, zero_lamp_segments, a_seen,
            summary, sample_lines, hist_lines, a_pc>>

vars == <<lc_vars, enriched, j_vars, a_vars>>

----------------------------------------------------------------------------
(* Bounds of the model *)

MaxRaw == 1
MaxVertices == 3
MaxParts == 2
MaxRows == 2
MaxFeatures == 2
MaxSegments == 11

----------------------------------------------------------------------------
(* Generic helpers *)

Abs(x) == IF x < 0 THEN -x ELSE x

Min(a, b) == IF a < b THEN a ELSE b

RECURSIVE SumSeq(_)
SumSeq(s) == IF s = <<>> THEN 0 ELSE Head(s) + SumSeq(Tail(s))

SeqsUpTo(S, n) == UNION {[1..k -> S] : k \in 0..n}

\* dict[key] = value
SetItem(d, key, value) ==
    [k \in DOMAIN d \cup {key} |-> IF k = key THEN value ELSE d[k]]

\* float(literal): the nearest double
ToFloat(x) == 2 * ((x + 1) \div 2)

----------------------------------------------------------------------------
(* calculate-segment-lengths.py *)

NoFile == [exists |-> FALSE, features |-> <<>>]

HasProps(feature) == "properties" \in DOMAIN feature

\* geojson.load turns every number of the document into a float.
LoadVertex(v) == [k \in DOMAIN v |-> ToFloat(v[k])]

LoadLine(line) == [k \in DOMAIN line |-> LoadVertex(line[k])]

LoadGeometry(geom) ==
    [type  |-> geom.type,
     line  |-> LoadLine(geom.line),
     parts |-> [k \in DOMAIN geom.parts |-> LoadLine(geom.parts[k])]]

LoadFeature(feature) ==
    [k \in DOMAIN feature |->
        IF k = "geometry" THEN LoadGeometry(feature[k]) ELSE feature[k]]

GeojsonLoad(features) == [k \in DOMAIN features |-> LoadFeature(features[k])]

\* geodesic((lat1, lon1), (lat2, lon2)).meters: the library's distance, a
\* non-negative number that weighs a degree of latitude and one of longitude
\* differently.
Geodesic(p, q) == 2 * Abs(p[1] - q[1]) + Abs(p[2] - q[2])

\* zip(coords[:-1], coords[1:])
ButLast(coords) == SubSeq(coords, 1, Len(coords) - 1)

ZipPairs(coords) ==
    [k \in 1..Min(Len(ButLast(coords)), Len(Tail(coords))) |->
        <<ButLast(coords)[k], Tail(coords)[k]>>]

PairsOf(coords) == IF coords = <<>> THEN <<>> ELSE ZipPairs(coords)

\* "for (lon1, lat1), (lon2, lat2) in ..." unpacks two numbers from each
\* vertex of each pair, and raises on any other arity.
UnpackRaises(coords) ==
    \E k \in DOMAIN PairsOf(coords) :
        Len(PairsOf(coords)[k][1]) # 2 \/ Len(PairsOf(coords)[k][2]) # 2

\* linestring_length that pairs each vertex with the one two places on
linestring_length_skip(coords) ==
    SumSeq([k \in 1..(Len(PairsOf(coords)) - 1) |->
        Geodesic(<<PairsOf(coords)[k][1][2], PairsOf(coords)[k][1][1]>>,
                 <<PairsOf(coords)[k + 1][2][2], PairsOf(coords)[k + 1][2][1]>>)])

linestring_length(coords) ==
    SumSeq([k \in DOMAIN PairsOf(coords) |->
        Geodesic(<<PairsOf(coords)[k][1][2], PairsOf(coords)[k][1][1]>>,
                 <<PairsOf(coords)[k][2][2], PairsOf(coords)[k][2][1]>>)])

\* length_m += linestring_length(part), over the parts in order
RECURSIVE PartsLength(_)
PartsLength(parts) ==
    IF parts = <<>> THEN 0
    ELSE linestring_length(Head(parts)) + PartsLength(Tail(parts))

\* The loop body's length_m (lines 17-22): 0 unless the type is one of the two.
FeatureLength(geom) ==
    IF geom.type = "LineString" THEN linestring_length(geom.line)
    ELSE IF geom.type = "MultiLineString" THEN PartsLength(geom.parts)
    ELSE 0

\* What makes the loop body raise: a vertex that does not unpack, in a
\* geometry whose coordinates are walked, or a feature with no properties.
FeatureRaises(feature) ==
    \/ /\ feature.geometry.type = "LineString"
       /\ UnpackRaises(feature.geometry.line)
    \/ /\ feature.geometry.type = "MultiLineString"
       /\ \E k \in DOMAIN feature.geometry.parts :
              UnpackRaises(feature.geometry.parts[k])
    \/ ~HasProps(feature)

EnrichFeature(feature) ==
    [feature EXCEPT !.properties =
        SetItem(@, "segment_length_m", FeatureLength(feature.geometry))]

\* lines 6-7: streets = geojson.load(f)
LC_Load ==
    /\ lc_pc = "load"
    /\ streets' = GeojsonLoad(rawfile)
    /\ lc_i' = 1
    /\ lc_pc' = "loop"
    /\ UNCHANGED <<rawfile, enriched, j_vars, a_vars>>

\* lines 15-23: one iteration of the loop
LC_Feature ==
    /\ lc_pc = "loop"
    /\ lc_i <= Len(streets)
    /\ IF FeatureRaises(streets[lc_i])
       THEN /\ lc_pc' = "aborted"
            /\ UNCHANGED <<streets, lc_i>>
       ELSE /\ streets' = [streets EXCEPT ![lc_i] = EnrichFeature(@)]
            /\ lc_i' = lc_i + 1
            /\ lc_pc' = "loop"
    /\ UNCHANGED <<rawfile, enriched, j_vars, a_vars>>

\* lines 25-26: the loop is over, json.dump(streets, f)
LC_Dump ==
    /\ lc_pc = "loop"
    /\ lc_i > Len(streets)
    /\ enriched' = [exists |-> TRUE, features |-> streets]
    /\ lc_pc' = "done"
    /\ UNCHANGED <<rawfile, streets, lc_i, j_vars, a_vars>>

----------------------------------------------------------------------------
(* calculate-streetlamp-density.py *)

IdInt(n) == [t |-> "int", n |-> n, s |-> ""]
IdStr(s) == [t |-> "str", n |-> 0, s |-> s]

\* dict.get(key): <<>> is None, <<v>> is the value v
Get(d, key) == IF key \in DOMAIN d THEN <<d[key]>> ELSE <<>>

Digits == <<"0", "1", "2", "3", "4", "5", "6", "7", "8", "9">>

RECURSIVE IntToStr(_)
IntToStr(n) ==
    IF n < 0 THEN "-" \o IntToStr(-n)
    ELSE IF n < 10 THEN Digits[n + 1]
    ELSE IntToStr(n \div 10) \o Digits[(n % 10) + 1]

\* str(props.get('STREETSEGID')): of None, of an int, of a str
PyStr(opt) ==
    IF opt = <<>> THEN "None"
    ELSE IF opt[1].t = "int" THEN IntToStr(opt[1].n)
    ELSE opt[1].s

\* "if segid:" on row.get('STREETSEGMID'): None and '' are falsy
SegidTruthy(opt) == opt # <<>> /\ opt[1] # ""

\* CountLamp that records the identifier and does not add up
CountLampOnce(counts, segid) == SetItem(counts, segid, 1)

\* lamp_counts[segid] = lamp_counts.get(segid, 0) + 1
CountLamp(counts, segid) ==
    SetItem(counts, segid, (IF segid \in DOMAIN counts THEN counts[segid] ELSE 0) + 1)

\* lamp_counts.get(segid, 0)
LampCount(counts, segid) == IF segid \in DOMAIN counts THEN counts[segid] ELSE 0

RECURSIVE GCD(_, _)
GCD(a, b) == IF b = 0 THEN a ELSE GCD(b, a % b)

\* a / b for b # 0, as the fraction in lowest terms with a positive
\* denominator: the quotient itself, the rounding of its last digit left out
Divide(a, b) ==
    LET g == GCD(Abs(a), Abs(b))
        sign == IF b < 0 THEN -1 ELSE 1
    IN  <<sign * (a \div g), sign * (b \div g)>>

Zero == <<0, 1>>

\* Density with the test "length > 0" left out
DensityUnguarded(lamp_count, length) ==
    IF length # <<>> /\ length[1] # 0
    THEN Divide(lamp_count, length[1])
    ELSE Zero

\* line 41: lamp_count / length if length and length > 0 else 0
Density(lamp_count, length) ==
    IF length # <<>> /\ length[1] # 0 /\ length[1] > 0
    THEN Divide(lamp_count, length[1])
    ELSE Zero

\* JoinLampCount with the identifier looked up as it is, not as its str()
JoinLampCountRaw(props, counts) ==
    IF Get(props, "STREETSEGID") # <<>> /\ props["STREETSEGID"].t = "str"
    THEN LampCount(counts, props["STREETSEGID"].s)
    ELSE 0

\* lines 38 and 40: segid = str(props.get('STREETSEGID')),
\* lamp_count = lamp_counts.get(segid, 0)
JoinLampCount(props, counts) == LampCount(counts, PyStr(Get(props, "STREETSEGID")))

\* ScoredFeature with the properties replaced, not extended
ScoredFeatureOnly(feature, counts) ==
    [feature EXCEPT !.properties =
        "streetlamp_score" :>
            Density(JoinLampCount(@, counts), Get(@, "segment_length_m"))]

\* lines 37-42: the feature with props['streetlamp_score'] = density
ScoredFeature(feature, counts) ==
    [feature EXCEPT !.properties =
        SetItem(@, "streetlamp_score",
            Density(JoinLampCount(@, counts), Get(@, "segment_length_m")))]

\* DecimalEncoder.default: float(obj) for every Decimal ijson parsed
DecimalEncoder(x) == ToFloat(x)

EncodeLine(line) ==
    [k \in DOMAIN line |-> [c \in DOMAIN line[k] |-> DecimalEncoder(line[k][c])]]

EncodeProps(props) ==
    [k \in DOMAIN props |->
        IF k = "segment_length_m" THEN DecimalEncoder(props[k]) ELSE props[k]]

\* json.dumps(feature, cls=DecimalEncoder), as the feature a parser reads back
JsonDumps(feature) ==
    [geometry |->
        [type  |-> feature.geometry.type,
         line  |-> EncodeLine(feature.geometry.line),
         parts |-> [k \in DOMAIN feature.geometry.parts |->
                       EncodeLine(feature.geometry.parts[k])]],
     properties |-> EncodeProps(feature.properties)]

\* a row of the inventory: with the identifier column, or short of it
Row(segid) == "STREETSEGMID" :> segid
RowNoId == <<>>

OpenToken == [tok |-> "open", item |-> <<>>]
SepToken == [tok |-> "sep", item |-> <<>>]
CloseToken == [tok |-> "close", item |-> <<>>]
FeatureToken(feature) == [tok |-> "feature", item |-> <<feature>>]

\* SeparatorDue that ignores the flag
SeparatorAlways(isFirst) == TRUE

\* lines 43-44: "if not first:" write the separator
SeparatorDue(isFirst) == ~isFirst

\* PrescanKeeps of a pre-scan that builds the list to take its length
PrescanKeepsAll(kept, feature) == Append(kept, feature)

\* what the generator expression of line 30 keeps of an item it counted
PrescanKeeps(kept, feature) == kept

\* the scripts run in pipeline order: the joiner starts when stage 1 is over
Stage1Over == lc_pc \in {"off", "done", "aborted"}

\* lines 23-26: one row of the reader
J_CountRow ==
    /\ Stage1Over
    /\ j_pc = "count"
    /\ csv_i <= Len(rows)
    /\ LET segid == Get(rows[csv_i], "STREETSEGMID")
       IN  lamp_counts' = IF SegidTruthy(segid)
                          THEN CountLamp(lamp_counts, segid[1])
                          ELSE lamp_counts
    /\ csv_i' = csv_i + 1
    /\ UNCHANGED <<a_vars, lc_vars, enriched, rows, feature_count, in_i, held, first,
                   outfile, j_pc>>

\* line 29: the reader is exhausted; open(geojson_in) raises if stage 1 wrote
\* no file
J_OpenPrescan ==
    /\ Stage1Over
    /\ j_pc = "count"
    /\ csv_i > Len(rows)
    /\ j_pc' = IF enriched.exists THEN "prescan" ELSE "aborted"
    /\ in_i' = 1
    /\ UNCHANGED <<a_vars, lc_vars, enriched, rows, csv_i, lamp_counts, feature_count,
                   held, first, outfile>>

\* line 30: sum(1 for _ in ijson.items(...)), one item
J_Prescan ==
    /\ j_pc = "prescan"
    /\ in_i <= Len(enriched.features)
    /\ feature_count' = feature_count + 1
    /\ held' = PrescanKeeps(held, enriched.features[in_i])
    /\ in_i' = in_i + 1
    /\ UNCHANGED <<a_vars, lc_vars, enriched, rows, csv_i, lamp_counts, first, outfile, j_pc>>

\* lines 33-35: both files opened, the collection's opening written
J_Open ==
    /\ j_pc = "prescan"
    /\ in_i > Len(enriched.features)
    /\ outfile' = <<OpenToken>>
    /\ first' = TRUE
    /\ in_i' = 1
    /\ j_pc' = "pull"
    /\ UNCHANGED <<a_vars, lc_vars, enriched, rows, csv_i, lamp_counts, feature_count, held>>

\* line 36: the generator yields the next feature
J_Pull ==
    /\ j_pc = "pull"
    /\ in_i <= Len(enriched.features)
    /\ held' = Append(held, enriched.features[in_i])
    /\ in_i' = in_i + 1
    /\ j_pc' = "emit"
    /\ UNCHANGED <<a_vars, lc_vars, enriched, rows, csv_i, lamp_counts, feature_count,
                   first, outfile>>

\* lines 37-46: the loop body; feature['properties'] raises KeyError when the
\* feature has none, and the with block then leaves the output unclosed
J_Emit ==
    /\ j_pc = "emit"
    /\ IF ~HasProps(Head(held))
       THEN /\ j_pc' = "aborted"
            /\ UNCHANGED <<outfile, first>>
       ELSE /\ outfile' =
                (IF SeparatorDue(first) THEN Append(outfile, SepToken) ELSE outfile)
                \o <<FeatureToken(JsonDumps(ScoredFeature(Head(held), lamp_counts)))>>
            /\ first' = FALSE
            /\ j_pc' = "pull"
    /\ held' = Tail(held)
    /\ UNCHANGED <<a_vars, lc_vars, enriched, rows, csv_i, lamp_counts, feature_count, in_i>>

\* line 47: the generator is exhausted, the collection's closing written
J_Close ==
    /\ j_pc = "pull"
    /\ in_i > Len(enriched.features)
    /\ outfile' = Append(outfile, CloseToken)
    /\ j_pc' = "done"
    /\ UNCHANGED <<a_vars, lc_vars, enriched, rows, csv_i, lamp_counts, feature_count,
                   in_i, held, first>>

JoinerStart ==
    /\ csv_i = 1
    /\ lamp_counts = <<>>
    /\ feature_count = 0
    /\ in_i = 1
    /\ held = <<>>
    /\ first = TRUE
    /\ outfile = <<>>
    /\ j_pc = "count"

\* the joiner is not run
JoinerIdle ==
    /\ rows = <<>>
    /\ csv_i = 1
    /\ lamp_counts = <<>>
    /\ feature_count = 0
    /\ in_i = 1
    /\ held = <<>>
    /\ first = TRUE
    /\ outfile = <<>>
    /\ j_pc = "off"

----------------------------------------------------------------------------
(* analyze_zero_lamp_segments.py *)

SampleSize == 10
LowCount == 5
HighCount == 5

\* dict.get(key, default)
GetOr(d, key, default) == IF key \in DOMAIN d THEN d[key] ELSE default

\* the sum of a Counter's counts
RECURSIVE TotalOf(_, _)
TotalOf(counts, keys) ==
    IF keys = {} THEN 0
    ELSE LET k == CHOOSE x \in keys : TRUE
         IN  counts[k] + TotalOf(counts, keys \ {k})

\* lines 27-33: the tuple appended for a feature whose score is 0
ZeroEntry(props) ==
    <<PyStr(Get(props, "STREETSEGID")),
      GetOr(props, "FULLNAME", "Unknown"),
      GetOr(props, "segment_length_m", 0)>>

\* line 30: props.get('streetlamp_score', 0) == 0
ScoreIsZero(props) == GetOr(props, "streetlamp_score", Zero)[1] = 0

\* list[:n]
Take(list, n) == SubSeq(list, 1, Min(n, Len(list)))

\* list[-n:]
TakeLast(list, n) == SubSeq(list, Len(list) - Min(n, Len(list)) + 1, Len(list))

\* sorted(list, key=lambda x: x[2], reverse=True): stable, so entries of equal
\* length keep the order they had
RECURSIVE InsertDescending(_, _)
InsertDescending(sorted, x) ==
    IF sorted = <<>> THEN <<x>>
    ELSE IF Head(sorted)[3] >= x[3]
         THEN <<Head(sorted)>> \o InsertDescending(Tail(sorted), x)
         ELSE <<x>> \o sorted

RECURSIVE SortedDescending(_)
SortedDescending(list) ==
    IF list = <<>> THEN <<>>
    ELSE InsertDescending(SortedDescending(ButLast(list)), list[Len(list)])

\* SampleOf that sorts the whole list and then cuts it
SampleOfLongest(list) == Take(SortedDescending(list), SampleSize)

\* line 46: the entries the sample loop prints, in order
SampleOf(list) == SortedDescending(Take(list, SampleSize))

\* sorted(counts.keys()), ascending
RECURSIVE SortedKeys(_)
SortedKeys(keys) ==
    IF keys = {} THEN <<>>
    ELSE LET m == CHOOSE x \in keys : \A y \in keys : x <= y
         IN  <<m>> \o SortedKeys(keys \ {m})

\* Counter(lamp_counts.values()): lamp count -> number of segments with it
ValueCounter(counts) ==
    [v \in {counts[k] : k \in DOMAIN counts} |->
        Cardinality({k \in DOMAIN counts : counts[k] = v})]

CountLine(counter, v) == [kind |-> "count", lamps |-> v, segments |-> counter[v]]
EllipsisLine == [kind |-> "ellipsis", lamps |-> 0, segments |-> 0]

\* lines 51-56: the lines of the distribution report
DistributionOf(counts) ==
    LET counter == ValueCounter(counts)
        keys == SortedKeys(DOMAIN counter)
        low == Take(keys, LowCount)
        high == TakeLast(keys, HighCount)
    IN  [k \in DOMAIN low |-> CountLine(counter, low[k])]
        \o <<EllipsisLine>>
        \o [k \in DOMAIN high |-> CountLine(counter, high[k])]

\* rows of the inventory the analyzer reads
AnalyzerRows == {RowNoId, Row(""), Row("7")}

AProps(id, name, len, score) ==
    ("STREETSEGID" :> id) @@ ("FULLNAME" :> name) @@ ("segment_length_m" :> len)
    @@ ("streetlamp_score" :> score)

\* properties of the features of the joined file the analyzer reads
AnalyzerProps ==
    {"STREETSEGID" :> IdInt(7),
     AProps(IdInt(8), "MAIN ST", 4, Zero),
     AProps(IdInt(9), "OAK ST", 2, <<1, 2>>)}

\* lines 15-19: one row of the reader
A_Row ==
    /\ a_pc = "lamps"
    /\ TotalOf(a_counts, DOMAIN a_counts) < MaxRows
    /\ \E row \in AnalyzerRows :
          LET segid == Get(row, "STREETSEGMID")
          IN  IF SegidTruthy(segid)
              THEN /\ lamp_segments' = lamp_segments \cup {segid[1]}
                   /\ a_counts' = CountLamp(a_counts, segid[1])
              ELSE UNCHANGED <<lamp_segments, a_counts>>
    /\ UNCHANGED <<lc_vars, enriched, j_vars, street_segments, zero_lamp_segments,
                   a_seen, summary, sample_lines, hist_lines, a_pc>>

\* lines 22-25: the reader is exhausted, the joined file is opened
A_OpenSegments ==
    /\ a_pc = "lamps"
    /\ a_pc' = "segments"
    /\ UNCHANGED <<lc_vars, enriched, j_vars, a_counts, lamp_segments,
                   street_segments, zero_lamp_segments, a_seen, summary,
                   sample_lines, hist_lines>>

\* lines 26-33: one feature of the joined file
A_Segment ==
    /\ a_pc = "segments"
    /\ a_seen < MaxSegments
    /\ \E props \in AnalyzerProps :
          /\ street_segments' = street_segments \cup {PyStr(Get(props, "STREETSEGID"))}
          /\ zero_lamp_segments' =
                IF ScoreIsZero(props)
                THEN Append(zero_lamp_segments, ZeroEntry(props))
                ELSE zero_lamp_segments
    /\ a_seen' = a_seen + 1
    /\ UNCHANGED <<lc_vars, enriched, j_vars, a_counts, lamp_segments, summary,
                   sample_lines, hist_lines, a_pc>>

\* lines 36-41: the joined file is exhausted, the figures are printed
A_Print ==
    /\ a_pc = "segments"
    /\ summary' = <<Cardinality(lamp_segments), Cardinality(street_segments),
                    Len(zero_lamp_segments),
                    Cardinality(street_segments \ lamp_segments),
                    Cardinality(lamp_segments \ street_segments)>>
    /\ a_pc' = "sample"
    /\ UNCHANGED <<lc_vars, enriched, j_vars, a_counts, lamp_segments,
                   street_segments, zero_lamp_segments, a_seen, sample_lines,
                   hist_lines>>

\* lines 44-47: the sample of zero-lamp segments
A_Sample ==
    /\ a_pc = "sample"
    /\ sample_lines' = SampleOf(zero_lamp_segments)
    /\ a_pc' = "distribution"
    /\ UNCHANGED <<lc_vars, enriched, j_vars, a_counts, lamp_segments,
                   street_segments, zero_lamp_segments, a_seen, summary, hist_lines>>

\* lines 50-56: the distribution of lamp counts
A_Distribution ==
    /\ a_pc = "distribution"
    /\ hist_lines' = DistributionOf(a_counts)
    /\ a_pc' = "done"
    /\ UNCHANGED <<lc_vars, enriched, j_vars, a_counts, lamp_segments,
                   street_segments, zero_lamp_segments, a_seen, summary,
                   sample_lines>>

AnalyzerFresh ==
    /\ a_counts = <<>>
    /\ lamp_segments = {}
    /\ street_segments = {}
    /\ zero_lamp_segments = <<>>
    /\ a_seen = 0
    /\ summary = <<>>
    /\ sample_lines = <<>>
    /\ hist_lines = <<>>

\* the analyzer is not run
AnalyzerIdle == AnalyzerFresh /\ a_pc = "off"

InitAnalyzer ==
    /\ rawfile = <<>>
    /\ streets = <<>>
    /\ lc_i = 1
    /\ lc_pc = "off"
    /\ enriched = NoFile
    /\ JoinerIdle
    /\ AnalyzerFresh
    /\ a_pc = "lamps"

NextAnalyzer ==
    \/ A_Row
    \/ A_OpenSegments
    \/ A_Segment
    \/ A_Print
    \/ A_Sample
    \/ A_Distribution

SpecAnalyzer == InitAnalyzer /\ [][NextAnalyzer]_vars

----------------------------------------------------------------------------
(* Inputs of the Length Calculator *)

VA == <<0, 0>>
VB == <<2, 4>>
VC == <<5, 4>>
V3D == <<2, 4, 9>>

Vertices == {VA, VB, V3D}

Lines == SeqsUpTo(Vertices, MaxVertices)

PartKinds == {<<>>, <<VB>>, <<VA, VB>>, <<VA, VC, VB>>, <<VA, V3D>>}

LineString(line) == [type |-> "LineString", line |-> line, parts |-> <<>>]
MultiLineString(parts) == [type |-> "MultiLineString", line |-> <<>>, parts |-> parts]
Polygon(rings) == [type |-> "Polygon", line |-> <<>>, parts |-> rings]

Geometries ==
    {LineString(l) : l \in Lines}
    \cup {MultiLineString(p) : p \in SeqsUpTo(PartKinds, MaxParts)}
    \cup {Polygon(<<<<VA, VB, VC, VA>>>>)}

RawProps == "STREETSEGID" :> IdInt(7)

RawFeatures ==
    {[geometry |-> g, properties |-> RawProps] : g \in Geometries}
    \cup {[geometry |-> LineString(<<VA, VB>>)]}

InitLen ==
    /\ rawfile \in SeqsUpTo(RawFeatures, MaxRaw)
    /\ streets = <<>>
    /\ lc_i = 1
    /\ lc_pc = "load"
    /\ enriched = NoFile
    /\ JoinerIdle
    /\ AnalyzerIdle

NextLen == LC_Load \/ LC_Feature \/ LC_Dump

SpecLen == InitLen /\ [][NextLen]_vars

----------------------------------------------------------------------------
(* The pipeline: stage 1, then the joiner on the file stage 1 wrote; or the *)
(* joiner alone on a file it finds at its input path                        *)

RowKinds == {RowNoId, Row(""), Row("7"), Row("None")}

SegProps(id, len) == ("STREETSEGID" :> id) @@ ("segment_length_m" :> len)

\* features of a raw centerline file
PipelineRaw ==
    {[geometry |-> LineString(<<VA, VC>>), properties |-> "STREETSEGID" :> IdInt(7)],
     [geometry |-> MultiLineString(<<<<VA, VB>>, <<VB>>>>),
      properties |-> "STREETSEGID" :> IdStr("7")],
     [geometry |-> LineString(<<VA, V3D>>), properties |-> "STREETSEGID" :> IdInt(7)],
     [geometry |-> LineString(<<VB>>),
      properties |-> ("STREETSEGID" :> IdStr("")) @@ ("streetlamp_score" :> <<9, 1>>)]}

\* features of a file at the joiner's input path that stage 1 did not write
JoinFeatures ==
    {[geometry |-> LineString(<<VA, VB>>), properties |-> SegProps(IdInt(7), 4)],
     [geometry |-> LineString(<<VA, VB>>), properties |-> SegProps(IdInt(7), 0)],
     [geometry |-> LineString(<<VA, VB>>), properties |-> SegProps(IdInt(7), -2)],
     [geometry |-> LineString(<<VA, VB>>), properties |-> <<>>],
     [geometry |-> LineString(<<VA, VC>>), properties |-> SegProps(IdStr(""), 3)],
     [geometry |-> LineString(<<VA, VB>>)]}

InitPipeline ==
    /\ rawfile \in SeqsUpTo(PipelineRaw, MaxFeatures)
    /\ streets = <<>>
    /\ lc_i = 1
    /\ lc_pc = "load"
    /\ enriched = NoFile

InitJoinerAlone ==
    /\ rawfile = <<>>
    /\ streets = <<>>
    /\ lc_i = 1
    /\ lc_pc = "off"
    /\ enriched \in {[exists |-> TRUE, features |-> fs] :
                        fs \in SeqsUpTo(JoinFeatures, MaxFeatures)}

Init ==
    /\ InitPipeline \/ InitJoinerAlone
    /\ rows \in SeqsUpTo(RowKinds, MaxRows)
    /\ JoinerStart
    /\ AnalyzerIdle

Next ==
    \/ LC_Load
    \/ LC_Feature
    \/ LC_Dump
    \/ J_CountRow
    \/ J_OpenPrescan
    \/ J_Prescan
    \/ J_Open
    \/ J_Pull
    \/ J_Emit
    \/ J_Close

Spec == Init /\ [][Next]_vars

----------------------------------------------------------------------------
(* Properties of the Lamp Aggregator and the Density Joiner *)

IsFeatureToken(token) == token.tok = "feature"

\* the features of the output, in the order written
Written == [k \in DOMAIN SelectSeq(outfile, IsFeatureToken) |->
               SelectSeq(outfile, IsFeatureToken)[k].item[1]]

\* the k-th feature of the joiner's input
Input(k) == enriched.features[k]

\* the rows the reader has yielded that carry the identifier id
RowsWith(id) ==
    {i \in 1..(csv_i - 1) : Get(rows[i], "STREETSEGMID") = <<id>>}

\* the identifiers the rows may carry
RowIds == {"", "7", "None"}

\* C1: every segment the Density Joiner has written carries a
\* streetlamp_score that is lamp_count / segment_length_m when the length it
\* read is > 0 and exactly 0 when that length is 0, negative or absent,
\* whatever the lamp_count; the score is a well-defined number (its
\* denominator is positive: nothing was divided by zero) and never negative.
C1_DensityFloor ==
    \A k \in DOMAIN Written :
        LET props == Input(k).properties
            length == Get(props, "segment_length_m")
            lamp_count == JoinLampCount(props, lamp_counts)
            score == Written[k].properties["streetlamp_score"]
        IN  /\ score[2] > 0
            /\ score[1] >= 0
            /\ (length # <<>> /\ length[1] > 0)
                   => score[1] * length[1] = lamp_count * score[2]
            /\ (length = <<>> \/ length[1] <= 0) => score = Zero

\* a segment of length 0 and one of negative length, each with lamps joined
\* to it, have been written
C1_Witness ==
    /\ j_pc = "done"
    /\ \E k \in DOMAIN Written :
          /\ JoinLampCount(Input(k).properties, lamp_counts) > 0
          /\ Get(Input(k).properties, "segment_length_m") = <<0>>
    /\ \E k \in DOMAIN Written :
          /\ JoinLampCount(Input(k).properties, lamp_counts) > 0
          /\ Get(Input(k).properties, "segment_length_m") = <<-2>>

\* C2: at every point of the aggregation the index maps each non-empty
\* identifier to the number of rows read that carry exactly it (repeated rows
\* each count), has a key for no other identifier, in particular none for a
\* missing or empty one, and its counts add up to the number of rows read
\* that have a non-empty identifier.
C2_IndexCountsRows ==
    /\ \A id \in DOMAIN lamp_counts :
          id # "" /\ lamp_counts[id] = Cardinality(RowsWith(id))
    /\ \A id \in RowIds \ {""} : RowsWith(id) # {} => id \in DOMAIN lamp_counts
    /\ TotalOf(lamp_counts, DOMAIN lamp_counts) =
          Cardinality({i \in 1..(csv_i - 1) :
              SegidTruthy(Get(rows[i], "STREETSEGMID"))})

\* an inventory of two rows of one identifier has been counted
C2_Witness ==
    /\ j_pc = "prescan"
    /\ "7" \in DOMAIN lamp_counts
    /\ lamp_counts["7"] = 2

\* the joiner is past the aggregation and has pulled the features before in_i
Joining == j_pc \in {"pull", "emit", "done"}

\* C3 as stated: the lamp_count of every segment is the number of fixture
\* rows that carry an identifier (a string, empty or not) equal to the str()
\* of the segment's identifier.
C3_CountOfMatchingRows ==
    Joining =>
        \A k \in 1..(in_i - 1) :
            HasProps(Input(k)) =>
                JoinLampCount(Input(k).properties, lamp_counts) =
                    Cardinality({i \in DOMAIN rows :
                        Get(rows[i], "STREETSEGMID") =
                            <<PyStr(Get(Input(k).properties, "STREETSEGID"))>>})

\* C3 as amended: the lamp_count of every segment is the number of fixture
\* rows with a non-empty identifier whose identifier is the str() of the
\* segment's own; 0 when the index has no such key.
C3_CountOfMatchingNonEmptyRows ==
    Joining =>
        \A k \in 1..(in_i - 1) :
            HasProps(Input(k)) =>
                JoinLampCount(Input(k).properties, lamp_counts) =
                    Cardinality({i \in DOMAIN rows :
                        /\ SegidTruthy(Get(rows[i], "STREETSEGMID"))
                        /\ rows[i]["STREETSEGMID"] =
                               PyStr(Get(Input(k).properties, "STREETSEGID"))})

\* a segment whose identifier is the integer 7 has been joined to two rows
\* that carry the string "7"
C3_Witness ==
    /\ Joining
    /\ \E k \in 1..(in_i - 1) :
          /\ HasProps(Input(k))
          /\ Get(Input(k).properties, "STREETSEGID") = <<IdInt(7)>>
          /\ JoinLampCount(Input(k).properties, lamp_counts) = 2

\* C4: the writes open the collection exactly once, first; a separator is
\* written before every feature but the first and nowhere else; the
\* collection is closed at most once, last, and only when every feature of
\* the input has been written, which is when the run is done.
C4_Framing ==
    /\ \A p \in DOMAIN outfile :
          /\ outfile[p].tok = "open" <=> p = 1
          /\ outfile[p].tok = "sep" =>
                /\ p > 2 /\ p < Len(outfile)
                /\ outfile[p - 1].tok = "feature"
                /\ outfile[p + 1].tok = "feature"
          /\ (outfile[p].tok = "feature" /\ p > 2) => outfile[p - 1].tok = "sep"
          /\ outfile[p].tok = "close" =>
                /\ p = Len(outfile)
                /\ Len(Written) = Len(enriched.features)
    /\ Cardinality({p \in DOMAIN outfile : outfile[p].tok = "sep"}) =
          (IF Len(Written) = 0 THEN 0 ELSE Len(Written) - 1)
    /\ j_pc = "done" <=> (outfile # <<>> /\ outfile[Len(outfile)].tok = "close")
    /\ j_pc \in {"off", "count", "prescan"} => outfile = <<>>
    /\ j_pc \in {"pull", "emit", "done"} => outfile # <<>>

\* a run over two features is done: one separator was written
C4_Witness ==
    /\ j_pc = "done"
    /\ Len(Written) = 2
    /\ outfile[3].tok = "sep"

\* the derived fields, which a stage sets whatever the input had there
Derived == {"segment_length_m", "streetlamp_score"}

\* C5: when a run on the file stage 1 wrote is done, the output read back
\* has as many features as that file, in its order, and the i-th has the i-th
\* one's geometry and every one of its properties unchanged (a property that
\* bears the name of the derived score is the derived field), plus
\* segment_length_m, as stage 1 wrote it, and streetlamp_score.
C5_RoundTrip ==
    (lc_pc = "done" /\ j_pc = "done") =>
        /\ Len(Written) = Len(enriched.features)
        /\ \A k \in DOMAIN Written :
              /\ Written[k].geometry = Input(k).geometry
              /\ DOMAIN Written[k].properties =
                    DOMAIN Input(k).properties \cup Derived
              /\ \A key \in DOMAIN Input(k).properties \ {"streetlamp_score"} :
                    Written[k].properties[key] = Input(k).properties[key]

\* a run on a two-feature file of stage 1 is done; the features differ
C5_Witness ==
    /\ lc_pc = "done"
    /\ j_pc = "done"
    /\ Len(Written) = 2
    /\ Written[1] # Written[2]

\* C10: no state of a run holds more than one feature parsed and not yet
\* written or dropped; outside the loop body none is held, so the pre-scan
\* keeps none; and the index has at most one key per distinct non-empty
\* identifier of the inventory.
C10_OneFeatureHeld ==
    /\ Len(held) <= 1
    /\ j_pc # "emit" => held = <<>>
    /\ Cardinality(DOMAIN lamp_counts) <=
          Cardinality({rows[i]["STREETSEGMID"] : i \in
              {j \in DOMAIN rows : SegidTruthy(Get(rows[j], "STREETSEGMID"))}})

\* the second feature of a two-feature input is held, after a pre-scan that
\* counted both and with the first one written
C10_Witness ==
    /\ j_pc = "emit"
    /\ feature_count = 2
    /\ Len(held) = 1
    /\ Len(Written) = 1

----------------------------------------------------------------------------
(* Properties of the Length Calculator *)

\* the distance between two vertices <<lon, lat>>
VertexDistance(v, w) == Geodesic(<<v[2], v[1]>>, <<w[2], w[1]>>)

\* the sum of the N-1 distances between consecutive vertices, 0 for N <= 1
RECURSIVE PathLength(_, _)
PathLength(line, n) ==
    IF n <= 1 THEN 0
    ELSE PathLength(line, n - 1) + VertexDistance(line[n - 1], line[n])

RECURSIVE SumOfPaths(_, _)
SumOfPaths(parts, n) ==
    IF n = 0 THEN 0
    ELSE SumOfPaths(parts, n - 1) + PathLength(parts[n], Len(parts[n]))

Supported == {"LineString", "MultiLineString"}

\* C6 as stated: a feature of an unsupported geometry type is fatal: it is
\* given no length and the run writes no output file.
C6_UnsupportedTypeIsFatal ==
    \A i \in DOMAIN streets :
        streets[i].geometry.type \notin Supported =>
            /\ ~enriched.exists
            /\ HasProps(streets[i]) =>
                  "segment_length_m" \notin DOMAIN streets[i].properties

\* C7: every feature the loop has passed has, for a LineString of N
\* vertices, the sum of the N-1 distances between consecutive vertices as its
\* segment_length_m (0 when N <= 1), for a MultiLineString the sum of that
\* over its parts, and never a negative number.
C7_LengthIsSumOfDistances ==
    lc_pc \in {"loop", "done", "aborted"} =>
        \A i \in 1..(lc_i - 1) :
            LET geom == streets[i].geometry
                length_m == streets[i].properties["segment_length_m"]
            IN  /\ length_m >= 0
                /\ geom.type = "LineString" =>
                      length_m = PathLength(geom.line, Len(geom.line))
                /\ (geom.type = "LineString" /\ Len(geom.line) <= 1) => length_m = 0
                /\ geom.type = "MultiLineString" =>
                      length_m = SumOfPaths(geom.parts, Len(geom.parts))

\* the output holds a MultiLineString of two parts, one of three vertices,
\* with a positive length
C7_Witness ==
    /\ enriched.exists
    /\ \E i \in DOMAIN enriched.features :
          LET f == enriched.features[i]
          IN  /\ f.geometry.type = "MultiLineString"
              /\ Len(f.geometry.parts) = 2
              /\ \E k \in 1..2 : Len(f.geometry.parts[k]) = 3
              /\ \E k \in 1..2 : Len(f.geometry.parts[k]) = 2
              /\ f.properties["segment_length_m"] > 0

----------------------------------------------------------------------------
(* Properties of the Segment Analyzer *)

\* how often entry e occurs in list
Occurrences(list, e) == Cardinality({p \in DOMAIN list : list[p] = e})

Descending(list) ==
    \A p \in DOMAIN list : \A q \in DOMAIN list : p < q => list[p][3] >= list[q][3]

Reported == a_pc \in {"distribution", "done"}

\* C8 as stated: the listing shows min(10, z) of the z zero-score segments,
\* longest first, and none of those left out is longer than one listed.
C8_SampleIsTheLongest ==
    Reported =>
        /\ Len(sample_lines) = Min(SampleSize, Len(zero_lamp_segments))
        /\ Descending(sample_lines)
        /\ \A p \in DOMAIN zero_lamp_segments :
              LET e == zero_lamp_segments[p]
              IN  /\ Occurrences(sample_lines, e) <= Occurrences(zero_lamp_segments, e)
                  /\ Occurrences(sample_lines, e) < Occurrences(zero_lamp_segments, e)
                        => \A q \in DOMAIN sample_lines : e[3] <= sample_lines[q][3]
        /\ \A q \in DOMAIN sample_lines :
              Occurrences(zero_lamp_segments, sample_lines[q]) > 0

\* C8 as amended: the listing shows the first min(10, z) of the z zero-score
\* segments in the order of the joined file, longest first.
C8_SampleIsTheFirstTen ==
    Reported =>
        /\ Len(sample_lines) = Min(SampleSize, Len(zero_lamp_segments))
        /\ Descending(sample_lines)
        /\ \A p \in DOMAIN zero_lamp_segments :
              Occurrences(sample_lines, zero_lamp_segments[p]) =
                  Occurrences(Take(zero_lamp_segments, SampleSize),
                              zero_lamp_segments[p])
        /\ \A q \in DOMAIN sample_lines :
              Occurrences(zero_lamp_segments, sample_lines[q]) > 0

\* eleven zero-score segments were read, the last of them longer than one of
\* the ten listed
C8_Witness ==
    /\ Reported
    /\ Len(zero_lamp_segments) > SampleSize
    /\ Len(sample_lines) = SampleSize
    /\ \E q \in DOMAIN sample_lines :
          zero_lamp_segments[Len(zero_lamp_segments)][3] > sample_lines[q][3]

\* the distinct lamp-count values of the index
DistinctValues == {a_counts[k] : k \in DOMAIN a_counts}

CountLines == SelectSeq(hist_lines, LAMBDA l : l.kind = "count")

\* C9 as stated, for an inventory with at least one lamp: the report prints
\* the 5 lowest and the 5 highest distinct values in ascending order, each
\* distinct value at most once, so at most min(d, 10) lines, and its ellipsis
\* stands for at least one value left out.
C9_HistogramPrintsEachValueOnce ==
    (a_pc = "done" /\ DistinctValues # {}) =>
        /\ \A v \in DistinctValues :
              Cardinality({p \in DOMAIN CountLines : CountLines[p].lamps = v}) <= 1
        /\ Len(CountLines) <= Min(Cardinality(DistinctValues), LowCount + HighCount)
        /\ \A p \in DOMAIN hist_lines :
              hist_lines[p].kind = "ellipsis" =>
                  \E v \in DistinctValues :
                      \A q \in DOMAIN CountLines : CountLines[q].lamps # v

====
